---- MODULE Spec2Model ----
(***************************************************************************)
(* Model of the cache simulator in src/cachesim_modified.cc: the generic   *)
(* set-associative cache_sim_t, the fully-associative fa_cache_sim_t, and  *)
(* the construction/dispatch logic.  A cache object is a record; the       *)
(* operations check_tag, victimize and access are operators on it.         *)
(***************************************************************************)
EXTENDS Integers, Sequences, FiniteSets, TLC

VARIABLES
  cfg,      \* the geometry handed to construct(): [sets, ways, linesz]
  phase,    \* "config" (not yet constructed), "ready", "fatal" (help() exited), "crashed"
  c,        \* the cache object under test (NoCache before construction)
  fwd,      \* the calls the cache made on its miss handler during the last access
  last,     \* the last access call and what it did (NoAccess before the first)
  ghost,    \* history: per slot the line that filled it and whether it was written
  ref,      \* a generic cache_sim_t run side by side with a fully-associative c
  script,   \* position of the scripted driver (0: accesses are free)
  pair,     \* the two lines an alternating driver goes back and forth between
  l2        \* the cache wired as miss handler of c in a two-level chain

vars == <<cfg, phase, c, fwd, last, ghost, ref, script, pair, l2>>

----------------------------------------------------------------------------
(* Bounds of the model *)

\* largest capacity, sets * ways * linesz bytes, of a cache offered to construct()
MaxCacheBytes == 32
\* number of access calls explored on one cache
MaxAccesses == 4
\* number of access calls explored on a fully-associative cache and its twin
FaMaxAccesses == 7

----------------------------------------------------------------------------
(* Program constants *)

\* flag bits of a tag word (cachesim.h is not part of the sources; the
\* data-model section of the specification gives bit 0 = VALID, bit 1 = DIRTY)
VALID == 1
DIRTY == 2
\* construct(): "ways > 4 /* empirical */"
FaThreshold == 4
\* init(): "linesz < 8"
MinLinesz == 8

NULL == -1
NoCache == [none |-> TRUE]
NoAccess == [none |-> TRUE]
Fatal == [fatal |-> TRUE]

----------------------------------------------------------------------------
(* Unsigned integer arithmetic used by the code *)

RECURSIVE BitAnd(_, _)
BitAnd(x, y) ==
  IF x = 0 \/ y = 0 THEN 0
  ELSE (x % 2) * (y % 2) + 2 * BitAnd(x \div 2, y \div 2)

BitOr(x, y) == x + y - BitAnd(x, y)

\* x & ~m
BitClear(x, m) == x - BitAnd(x, m)

Shr(x, n) == x \div (2 ^ n)

Shl(x, n) == x * (2 ^ n)

----------------------------------------------------------------------------
(* Construction *)

\* init(): the loop "for (x = linesz; x > 1; x >>= 1) idx_shift++"
RECURSIVE IdxShiftLoop(_)
IdxShiftLoop(x) == IF x > 1 THEN 1 + IdxShiftLoop(x \div 2) ELSE 0

\* a variant of InitCallsHelp that tests sets only against zero
InitCallsHelpNoPow2(sets, linesz) ==
  \/ sets = 0
  \/ linesz < MinLinesz \/ BitAnd(linesz, linesz - 1) # 0

\* init(): the two conditions that call help(), which exits the process
InitCallsHelp(sets, linesz) ==
  \/ sets = 0 \/ BitAnd(sets, sets - 1) # 0
  \/ linesz < MinLinesz \/ BitAnd(linesz, linesz - 1) # 0

\* a variant of InitLru that fills each set in ascending order
InitLruAscending(sets, ways) ==
  [p \in 0 .. (sets * ways - 1) |-> p % ways]

\* init(): the initial LRU array, lru[i * ways + j] = ways - j - 1
InitLru(sets, ways) ==
  [p \in 0 .. (sets * ways - 1) |-> ways - (p % ways) - 1]

\* the constructor followed by init(); fa tells which check_tag/victimize the
\* object dispatches to
init(sets, ways, linesz, fa) ==
  IF InitCallsHelp(sets, linesz) THEN Fatal
  ELSE [ sets |-> sets, ways |-> ways, linesz |-> linesz, fa |-> fa,
         idx_shift |-> IdxShiftLoop(linesz),
         tags |-> [p \in 0 .. (sets * ways - 1) |-> 0],
         lru |-> InitLru(sets, ways),
         read_accesses |-> 0, read_misses |-> 0, bytes_read |-> 0,
         write_accesses |-> 0, write_misses |-> 0, bytes_written |-> 0,
         writebacks |-> 0,
         miss_handler |-> FALSE ]

cache_sim_t(sets, ways, linesz) == init(sets, ways, linesz, FALSE)

fa_cache_sim_t(ways, linesz) == init(1, ways, linesz, TRUE)

\* construct(), after the configuration string has been split into numbers
construct(sets, ways, linesz) ==
  IF ways > FaThreshold /\ sets = 1
  THEN fa_cache_sim_t(ways, linesz)
  ELSE cache_sim_t(sets, ways, linesz)

----------------------------------------------------------------------------
(* Tag lookup and victim selection *)

SetMin(S) == CHOOSE x \in S : \A y \in S : x <= y

\* idx = (addr >> idx_shift) & (sets - 1)
Idx(cc, addr) == BitAnd(Shr(addr, cc.idx_shift), cc.sets - 1)

\* (addr >> idx_shift) | VALID
TagOf(cc, addr) == BitOr(Shr(addr, cc.idx_shift), VALID)

\* a variant of Promote that moves every position of the set down by one,
\* whatever the old position of way k
PromoteShiftAll(lru, base, ways, k) ==
  [p \in DOMAIN lru |->
     IF p = base THEN k
     ELSE IF p > base /\ p <= base + ways - 1 THEN lru[p - 1]
     ELSE lru[p]]

\* a variant of Promote that counts the LRU positions from the start of the
\* array instead of from the start of the set
PromoteFromArrayStart(lru, base, ways, k) ==
  LET pos == {i \in 0 .. (ways - 1) : lru[i] = k}
  IN IF pos = {} THEN lru
     ELSE LET i == SetMin(pos)
          IN [p \in DOMAIN lru |->
                IF p = 0 THEN k
                ELSE IF p > 0 /\ p <= i THEN lru[p - 1]
                ELSE lru[p]]

\* check_tag(), inner loops: way k of the set at base becomes position 0 and
\* the positions before its old one move down by one
Promote(lru, base, ways, k) ==
  LET pos == {i \in 0 .. (ways - 1) : lru[base + i] = k}
  IN IF pos = {} THEN lru
     ELSE LET i == SetMin(pos)
          IN [p \in DOMAIN lru |->
                IF p = base THEN k
                ELSE IF p > base /\ p <= base + i THEN lru[p - 1]
                ELSE lru[p]]

\* cache_sim_t::check_tag: the slot that matches (NULL when none) and the LRU
\* array it leaves behind
check_tag(cc, addr) ==
  LET idx == Idx(cc, addr)
      tag == TagOf(cc, addr)
      ks  == {k \in 0 .. (cc.ways - 1) :
                tag = BitClear(cc.tags[idx * cc.ways + k], DIRTY)}
  IN IF ks = {} THEN [hit_way |-> NULL, lru |-> cc.lru]
     ELSE LET k == SetMin(ks)
          IN [hit_way |-> idx * cc.ways + k,
              lru |-> Promote(cc.lru, idx * cc.ways, cc.ways, k)]

\* a variant of ShiftDown whose loop runs over the whole array, not over the
\* positions of one set
ShiftDownWholeArray(lru, base, ways, lru_way) ==
  [p \in DOMAIN lru |->
     IF p = 0 THEN lru_way
     ELSE lru[p - 1]]

\* the loop "for (i = ways - 1; i > 0; i--) lru[base + i] = lru[base + i - 1]"
\* followed by "lru[base] = lru_way"
ShiftDown(lru, base, ways, lru_way) ==
  [p \in DOMAIN lru |->
     IF p = base THEN lru_way
     ELSE IF p > base /\ p <= base + ways - 1 THEN lru[p - 1]
     ELSE lru[p]]

\* a variant of victimize that takes the way at LRU position 0 of the set
victimize_mru(cc, addr) ==
  LET idx == Idx(cc, addr)
      lru_way == cc.lru[idx * cc.ways]
      slot == idx * cc.ways + lru_way
  IN [slot |-> slot,
      victim |-> cc.tags[slot],
      lru |-> cc.lru,
      tags |-> [cc.tags EXCEPT ![slot] = BitOr(Shr(addr, cc.idx_shift), VALID)]]

\* cache_sim_t::victimize for ways >= 1: the slot refilled, the tag word it
\* held, and the tag and LRU arrays afterwards
victimize(cc, addr) ==
  LET idx == Idx(cc, addr)
      lru_way == cc.lru[idx * cc.ways + cc.ways - 1]
      slot == idx * cc.ways + lru_way
  IN [slot |-> slot,
      victim |-> cc.tags[slot],
      lru |-> ShiftDown(cc.lru, idx * cc.ways, cc.ways, lru_way),
      tags |-> [cc.tags EXCEPT ![slot] = BitOr(Shr(addr, cc.idx_shift), VALID)]]

\* fa_cache_sim_t::check_tag
fa_check_tag(cc, addr) ==
  LET idx == Idx(cc, addr)
      tag == TagOf(cc, addr)
      ks  == {k \in 0 .. (cc.ways - 1) :
                tag = BitClear(cc.tags[idx * cc.ways + k], DIRTY)}
  IN IF ks = {} THEN [hit_way |-> NULL, lru |-> cc.lru]
     ELSE LET k == SetMin(ks)
          IN [hit_way |-> idx * cc.ways + k,
              lru |-> Promote(cc.lru, idx * cc.ways, cc.ways, k)]

\* a variant of fa_victimize that takes the way at LRU position 0
fa_victimize_mru(cc, addr) ==
  LET lru_way == cc.lru[0]
  IN [slot |-> lru_way,
      victim |-> cc.tags[lru_way],
      lru |-> cc.lru,
      tags |-> [cc.tags EXCEPT ![lru_way] = BitOr(Shr(addr, cc.idx_shift), VALID)]]

\* fa_cache_sim_t::victimize for ways >= 1: no set index, the arrays are
\* addressed from 0
fa_victimize(cc, addr) ==
  LET lru_way == cc.lru[cc.ways - 1]
  IN [slot |-> lru_way,
      victim |-> cc.tags[lru_way],
      lru |-> ShiftDown(cc.lru, 0, cc.ways, lru_way),
      tags |-> [cc.tags EXCEPT ![lru_way] = BitOr(Shr(addr, cc.idx_shift), VALID)]]

\* the calls access() makes go to the object's own variant
CheckTagOf(cc, addr) ==
  IF cc.fa THEN fa_check_tag(cc, addr) ELSE check_tag(cc, addr)

VictimizeOf(cc, addr) ==
  IF cc.fa THEN fa_victimize(cc, addr) ELSE victimize(cc, addr)

----------------------------------------------------------------------------
(* access() *)

Call(addr, bytes, store) == [addr |-> addr, bytes |-> bytes, store |-> store]

\* a variant of CountAccess that adds the bytes of every call, load or store,
\* to bytes_read
CountAccessBytesRead(cc, bytes, store) ==
  IF store
  THEN [cc EXCEPT !.write_accesses = @ + 1, !.bytes_read = @ + bytes]
  ELSE [cc EXCEPT !.read_accesses = @ + 1, !.bytes_read = @ + bytes]

\* lines 155-156: the access and byte counters
CountAccess(cc, bytes, store) ==
  IF store
  THEN [cc EXCEPT !.write_accesses = @ + 1, !.bytes_written = @ + bytes]
  ELSE [cc EXCEPT !.read_accesses = @ + 1, !.bytes_read = @ + bytes]

\* line 165: the miss counters
CountMiss(cc, store) ==
  IF store THEN [cc EXCEPT !.write_misses = @ + 1]
  ELSE [cc EXCEPT !.read_misses = @ + 1]

\* line 173: the victim word has both flags
VictimIsDirty(victim) == BitAnd(victim, VALID + DIRTY) = VALID + DIRTY

\* line 174: dirty_addr = (victim & ~(VALID | DIRTY)) << idx_shift
DirtyAddr(cc, victim) == Shl(BitClear(victim, VALID + DIRTY), cc.idx_shift)

\* a variant of FillAddr that passes the address on as it came
FillAddrUnaligned(cc, addr) == addr

\* line 179: addr & ~(linesz - 1)
FillAddr(cc, addr) == BitClear(addr, cc.linesz - 1)

\* a variant of Forwarded that fetches the new line before it writes the
\* victim back
ForwardedFillFirst(cc, addr, victim) ==
  IF ~cc.miss_handler THEN <<>>
  ELSE <<Call(FillAddr(cc, addr), cc.linesz, FALSE)>>
       \o (IF VictimIsDirty(victim)
           THEN <<Call(DirtyAddr(cc, victim), cc.linesz, TRUE)>> ELSE <<>>)

\* lines 173-179: what goes to the miss handler, in the order of the calls
Forwarded(cc, addr, victim) ==
  IF ~cc.miss_handler THEN <<>>
  ELSE (IF VictimIsDirty(victim)
        THEN <<Call(DirtyAddr(cc, victim), cc.linesz, TRUE)>> ELSE <<>>)
       \o <<Call(FillAddr(cc, addr), cc.linesz, FALSE)>>

\* With ways = 0 victimize() reads lru[-1] and then reads and writes outside
\* both arrays: the word it returns is whatever lies there.
GarbageWords == {0, VALID, VALID + DIRTY}

Outcome(cc, calls, hit, crash, slot, victim) ==
  [c |-> cc, fwd |-> calls, hit |-> hit, crash |-> crash, slot |-> slot,
   victim |-> victim]

\* lines 171-181 once the victim word is known: the writeback count, the
\* forwarding, and for a store the second lookup.  "*check_tag(addr) |= DIRTY"
\* dereferences the result unchecked: on NULL the process is killed or the
\* store is lost.
AfterVictimize(cc, addr, store, slot, victim) ==
  LET c1 == IF VictimIsDirty(victim)
            THEN [cc EXCEPT !.writebacks = @ + 1] ELSE cc
      calls == Forwarded(cc, addr, victim)
      again == CheckTagOf(c1, addr)
  IN IF ~store THEN {Outcome(c1, calls, FALSE, FALSE, slot, victim)}
     ELSE IF again.hit_way = NULL
     THEN {Outcome(c1, calls, FALSE, TRUE, slot, victim),
           Outcome(c1, calls, FALSE, FALSE, slot, victim)}
     ELSE {Outcome([c1 EXCEPT !.lru = again.lru,
                              !.tags[again.hit_way] = BitOr(@, DIRTY)],
                   calls, FALSE, FALSE, slot, victim)}

\* cache_sim_t::access: the set of results the call can have (one, unless it
\* runs into undefined behaviour)
access(cc, addr, bytes, store) ==
  LET c1 == CountAccess(cc, bytes, store)
      found == CheckTagOf(c1, addr)
  IN IF found.hit_way # NULL
     THEN {Outcome([c1 EXCEPT !.lru = found.lru,
                              !.tags[found.hit_way] =
                                 IF store THEN BitOr(@, DIRTY) ELSE @],
                   <<>>, TRUE, FALSE, found.hit_way, 0)}
     ELSE LET c2 == CountMiss(c1, store)
          IN IF cc.ways = 0
             THEN {Outcome(c2, <<>>, FALSE, TRUE, NULL, 0)}
                  \cup UNION {AfterVictimize(c2, addr, store, NULL, g) :
                                g \in GarbageWords}
             ELSE LET v == VictimizeOf(c2, addr)
                  IN AfterVictimize([c2 EXCEPT !.lru = v.lru, !.tags = v.tags],
                                    addr, store, v.slot, v.victim)

----------------------------------------------------------------------------
(* History kept beside the cache: what each slot was filled with *)

Truncate(seq, n) == IF Len(seq) <= n THEN seq ELSE SubSeq(seq, 1, n)

NoLine == -1
NoPair == <<>>
NoGhost == [none |-> TRUE]

LineOf(cc, addr) == Shr(addr, cc.idx_shift)

\* held[slot]: the line whose miss last filled the slot; wrote[slot]: "fill"
\* when that miss was a store, "hit" when a store hit the slot while it had
\* not been written, "no" otherwise; recency[set]: the lines accessed in the
\* set, most recently accessed first, cut to the number of ways
GhostInit(cc) ==
  [ held |-> [p \in DOMAIN cc.tags |-> NoLine],
    wrote |-> [p \in DOMAIN cc.tags |-> "no"],
    recency |-> [i \in 0 .. (cc.sets - 1) |-> <<>>] ]

GhostStep(g, cc, addr, store, o) ==
  LET line == LineOf(cc, addr)
      idx == Idx(cc, addr)
      rec == [g.recency EXCEPT ![idx] =
                Truncate(<<line>> \o SelectSeq(@, LAMBDA x : x # line), cc.ways)]
  IN IF o.hit
     THEN [g EXCEPT !.recency = rec,
                    !.wrote[o.slot] = IF store /\ @ = "no" THEN "hit" ELSE @]
     ELSE IF o.slot # NULL
     THEN [g EXCEPT !.recency = rec, !.held[o.slot] = line,
                    !.wrote[o.slot] = IF store THEN "fill" ELSE "no"]
     ELSE [g EXCEPT !.recency = rec]

----------------------------------------------------------------------------
(* The state machine *)

CfgSets == {0, 1, 2, 3}
CfgWays == {0, 1, 2, 3}
CfgLinesz == {MinLinesz \div 2, MinLinesz, MinLinesz + MinLinesz \div 2,
              2 * MinLinesz}
Geometries ==
  {g \in [sets : CfgSets, ways : CfgWays, linesz : CfgLinesz] :
     g.sets * g.ways * g.linesz <= MaxCacheBytes}

\* line 1 differs from line 0 in bit 0 and line 2 in bit 1; lines 0 and 4
\* differ above the two lowest bits
Lines == {0, 1, 2, 4}
\* the calls go to the last byte of a line
Offsets(cc) == {cc.linesz - 1}
ByteCounts == {4}

NAccesses(cc) == cc.read_accesses + cc.write_accesses

Init ==
  /\ cfg \in Geometries
  /\ phase = "config"
  /\ c = NoCache
  /\ fwd = <<>>
  /\ last = NoAccess
  /\ ghost = NoGhost
  /\ ref = NoCache
  /\ script = 0
  /\ pair = NoPair
  /\ l2 = NoCache

\* cache_sim_t::construct; help() ends the process before anything is built
Construct ==
  /\ phase = "config"
  /\ LET made == construct(cfg.sets, cfg.ways, cfg.linesz)
     IN IF made = Fatal
        THEN /\ phase' = "fatal"
             /\ UNCHANGED <<c, ghost>>
        ELSE /\ phase' = "ready"
             /\ c' = made
             /\ ghost' = GhostInit(made)
  /\ UNCHANGED <<cfg, fwd, last, ref, script, pair, l2>>

\* the owner wires a miss handler to the cache before it sends traffic
SetMissHandler ==
  /\ phase = "ready"
  /\ last = NoAccess
  /\ ~c.miss_handler
  /\ c' = [c EXCEPT !.miss_handler = TRUE]
  /\ UNCHANGED <<cfg, phase, fwd, last, ghost, ref, script, pair, l2>>

\* the state a call c.access(addr, bytes, store) leaves when it ends as o
ApplyOutcome(addr, bytes, store, o) ==
  /\ c' = o.c
  /\ fwd' = o.fwd
  /\ phase' = IF o.crash THEN "crashed" ELSE "ready"
  /\ last' = [line |-> LineOf(c, addr), bytes |-> bytes, store |-> store,
              hit |-> o.hit, slot |-> o.slot, victim |-> o.victim]
  /\ ghost' = GhostStep(ghost, c, addr, store, o)

\* one call c.access(addr, bytes, store), run to completion
DoAccess(addr, bytes, store) ==
  \E o \in access(c, addr, bytes, store) : ApplyOutcome(addr, bytes, store, o)

Access ==
  /\ phase = "ready"
  /\ script = 0
  /\ NAccesses(c) < MaxAccesses
  /\ \E line \in Lines, off \in Offsets(c), bytes \in ByteCounts,
        store \in BOOLEAN :
       DoAccess(line * c.linesz + off, bytes, store)
  /\ UNCHANGED <<cfg, ref, script, pair, l2>>

Next == Construct \/ SetMissHandler \/ Access

Spec == Init /\ [][Next]_vars

----------------------------------------------------------------------------
(* Claims *)

Built == phase \in {"ready", "crashed"}

SetSlots(cc, i) == {i * cc.ways + j : j \in 0 .. (cc.ways - 1)}

Addresses(cc) == {line * cc.linesz + off : line \in Lines, off \in Offsets(cc)}

Misses(cc) == cc.read_misses + cc.write_misses

IsPowerOfTwo(n) == \E e \in 0 .. n : n = 2 ^ e

BadGeometry(g) ==
  \/ g.sets = 0 \/ ~IsPowerOfTwo(g.sets)
  \/ g.linesz < 8 \/ ~IsPowerOfTwo(g.linesz)

\* C2: in every state of a constructed cache, in every set the ways entries
\* of the LRU order are a permutation of 0..ways-1.
C2_LruIsPermutation ==
  Built =>
    \A i \in 0 .. (c.sets - 1) :
      /\ {c.lru[p] : p \in SetSlots(c, i)} = 0 .. (c.ways - 1)
      /\ \A p, q \in SetSlots(c, i) : c.lru[p] = c.lru[q] => p = q

\* a three-way set that was filled completely and then had its way in the
\* last LRU position hit and promoted
C2_Witness ==
  /\ phase = "ready" /\ c.ways = 3 /\ last # NoAccess
  /\ last.hit /\ Misses(c) = 3
  /\ c.lru[0] = 0 /\ c.lru[1] = 2 /\ c.lru[2] = 1

\* C8: right after construction every tag slot is invalid, no address is
\* found by a lookup, all counters are zero, and LRU position j of every set
\* holds way ways-j-1.
C8_FreshCache ==
  (phase = "ready" /\ last = NoAccess) =>
    /\ \A p \in DOMAIN c.tags : BitAnd(c.tags[p], VALID) = 0
    /\ \A a \in Addresses(c) : CheckTagOf(c, a).hit_way = NULL
    /\ c.read_accesses = 0 /\ c.read_misses = 0 /\ c.bytes_read = 0
    /\ c.write_accesses = 0 /\ c.write_misses = 0 /\ c.bytes_written = 0
    /\ c.writebacks = 0
    /\ \A i \in 0 .. (c.sets - 1) : \A j \in 0 .. (c.ways - 1) :
         c.lru[i * c.ways + j] = c.ways - j - 1

C8_Witness ==
  phase = "ready" /\ last = NoAccess /\ c.sets = 2 /\ c.ways = 2

\* C9: construction ends in the fatal configuration error exactly when sets
\* is zero or not a power of two, or linesz is below 8 or not a power of two;
\* the error comes before any tag or LRU state exists and never after an
\* access.
C9_FatalExactlyOnBadGeometry ==
  /\ phase = "fatal" => BadGeometry(cfg) /\ c = NoCache /\ last = NoAccess
  /\ Built => ~BadGeometry(cfg)

C9_Witness == phase = "fatal" /\ cfg.sets = 3 /\ cfg.linesz = 8

\* C10: a geometry with ways = 0 is rejected at construction, so that no
\* constructed cache has ways = 0.
C10_WaysZeroRejected == Built => c.ways >= 1

\* the step is one call of access() on a cache with at least one way
AccessStep == phase = "ready" /\ c.ways >= 1 /\ NAccesses(c') = NAccesses(c) + 1

HasFlag(word, flag) == BitAnd(word, flag) = flag

\* C1: on a freshly constructed cache a read of address a misses, and the
\* access to a that follows it (read or write, any size) hits: it increments
\* no miss counter and forwards nothing to the handler.
C1_MissThenHit ==
  [][ ( /\ AccessStep
        /\ NAccesses(c) = 1 /\ ~last.store
        /\ last'.line = last.line )
      => ( /\ ~last.hit /\ c.read_misses = 1
           /\ last'.hit
           /\ Misses(c') = Misses(c)
           /\ fwd' = <<>> ) ]_vars

Range(seq) == {seq[i] : i \in 1 .. Len(seq)}

Position(seq, x) == SetMin({i \in 1 .. Len(seq) : seq[i] = x})

\* line r was accessed more recently than line e, by the record seq of the set
MoreRecent(seq, r, e) ==
  /\ r \in Range(seq)
  /\ e \in Range(seq) => Position(seq, r) < Position(seq, e)

\* C3: when a set holds ways distinct resident lines and an access misses on
\* another line of that set, the line evicted is the resident line whose last
\* access is the oldest; right afterwards the evicted line is not found and
\* each of the other ways-1 lines still is.
C3_TrueLru ==
  [][ ( /\ AccessStep
        /\ ~last'.hit /\ last'.slot # NULL
        /\ LET S == SetSlots(c, last'.slot \div c.ways)
           IN /\ \A p \in S : ghost.held[p] # NoLine
              /\ \A p, q \in S : ghost.held[p] = ghost.held[q] => p = q
              /\ \A p \in S : ghost.held[p] # last'.line )
      => LET idx == last'.slot \div c.ways
             S == SetSlots(c, idx)
             evicted == ghost.held[last'.slot]
         IN /\ \A p \in S \ {last'.slot} :
                 MoreRecent(ghost.recency[idx], ghost.held[p], evicted)
            /\ CheckTagOf(c', evicted * c.linesz).hit_way = NULL
            /\ \A p \in S \ {last'.slot} :
                 CheckTagOf(c', ghost.held[p] * c.linesz).hit_way # NULL ]_vars

\* the writes among the calls forwarded to the handler
WritesIn(calls) == SelectSeq(calls, LAMBDA x : x.store)

\* C4: a write to a resident clean line sets DIRTY on it without counting a
\* miss; when a line so written is evicted, the handler gets exactly one
\* write, at the line's address and of linesz bytes, and writebacks grows by
\* one.
C4_WriteThenWriteback ==
  [][ /\ ( /\ AccessStep /\ last'.store
           /\ \E p \in SetSlots(c, Idx(c, last'.line * c.linesz)) :
                ghost.held[p] = last'.line /\ ghost.wrote[p] = "no" )
         => \E p \in SetSlots(c, Idx(c, last'.line * c.linesz)) :
              /\ ghost.held[p] = last'.line
              /\ HasFlag(c'.tags[p], DIRTY)
              /\ Misses(c') = Misses(c)
      /\ ( /\ AccessStep /\ c.miss_handler
           /\ ~last'.hit /\ last'.slot # NULL
           /\ ghost.wrote[last'.slot] = "hit" )
         => /\ WritesIn(fwd') =
                 <<Call(ghost.held[last'.slot] * c.linesz, c.linesz, TRUE)>>
            /\ c'.writebacks = c.writebacks + 1 ]_vars

\* C6: in every state of a cache, for every slot, VALID is set iff a miss
\* has filled the slot and DIRTY iff the line in it was written since the
\* fill; DIRTY implies VALID; a cache that got only reads has no DIRTY slot
\* and has written nothing back.
C6_FlagsMeanWhatTheySay ==
  (phase = "ready" /\ c.ways >= 1) =>
    /\ \A p \in DOMAIN c.tags :
         /\ HasFlag(c.tags[p], VALID) <=> ghost.held[p] # NoLine
         /\ HasFlag(c.tags[p], DIRTY) <=> ghost.wrote[p] # "no"
         /\ HasFlag(c.tags[p], DIRTY) => HasFlag(c.tags[p], VALID)
    /\ c.write_accesses = 0 =>
         /\ \A p \in DOMAIN c.tags : ~HasFlag(c.tags[p], DIRTY)
         /\ c.writebacks = 0

----------------------------------------------------------------------------
(* The scripted scenario of a 64-set, 4-way cache with 64-byte lines: 0x1000
   is read, read and written, then four further distinct lines of its set
   are accessed *)

ScenarioGeometry == [sets |-> 64, ways |-> 4, linesz |-> 64]

ScenarioAddr == 16 * 256

\* lines of the set of 0x1000 other than its own
ScenarioLines == {k * ScenarioGeometry.sets : k \in 2 .. 6}

ScenarioLength == 7

ScenarioInit ==
  /\ cfg = ScenarioGeometry
  /\ phase = "config"
  /\ c = NoCache
  /\ fwd = <<>>
  /\ last = NoAccess
  /\ ghost = NoGhost
  /\ ref = NoCache
  /\ script = 1
  /\ pair = NoPair
  /\ l2 = NoCache

ScenarioStep ==
  /\ phase = "ready"
  /\ script \in 1 .. ScenarioLength
  /\ script' = script + 1
  /\ \/ /\ script \in {1, 2}
        /\ \E bytes \in ByteCounts : DoAccess(ScenarioAddr, bytes, FALSE)
     \/ /\ script = 3
        /\ \E bytes \in ByteCounts : DoAccess(ScenarioAddr, bytes, TRUE)
     \/ /\ script > 3
        /\ \E line \in ScenarioLines, off \in Offsets(c),
              bytes \in ByteCounts, store \in BOOLEAN :
             /\ line \notin Range(ghost.recency[Idx(c, ScenarioAddr)])
             /\ DoAccess(line * c.linesz + off, bytes, store)
  /\ UNCHANGED <<cfg, ref, pair, l2>>

SpecScenario ==
  (Init \/ ScenarioInit) /\ [][Next \/ ScenarioStep]_vars

\* C5: on a miss whose victim word is VALID and DIRTY the handler gets the
\* writeback first and the fill second, both within the access; and at the
\* end of the scripted scenario the last access has evicted 0x1000 and has
\* forwarded the writeback of 0x1000 before the fill read.
C5_WritebackBeforeFill ==
  /\ ( /\ Built /\ last # NoAccess /\ c.miss_handler
       /\ ~last.hit
       /\ HasFlag(last.victim, VALID) /\ HasFlag(last.victim, DIRTY) )
     => /\ Len(fwd) = 2
        /\ fwd[1].store /\ fwd[1].bytes = c.linesz
        /\ fwd[2] = Call(last.line * c.linesz, c.linesz, FALSE)
  /\ ( script = ScenarioLength + 1 /\ c.miss_handler )
     => /\ ~last.hit
        /\ fwd = << Call(ScenarioAddr, c.linesz, TRUE),
                    Call(last.line * c.linesz, c.linesz, FALSE) >>
        /\ CheckTagOf(c, ScenarioAddr).hit_way = NULL
        /\ c.writebacks = 1

C5_Witness ==
  /\ script = ScenarioLength + 1 /\ c.miss_handler /\ phase = "ready"
  /\ Len(fwd) = 2 /\ fwd[1].addr = ScenarioAddr /\ ~last.store

----------------------------------------------------------------------------
(* A fully-associative cache and a generic cache of the same geometry, fed
   the same calls *)

FaGeometries == {[sets |-> 1, ways |-> FaThreshold + 1, linesz |-> MinLinesz]}

\* line 0 has bit 1 clear, line 2 has it set
FaLines == {0, 2}

\* the calls go to the last byte of a line
FaOffsets(cc) == {cc.linesz - 1}

FaInit ==
  /\ cfg \in FaGeometries
  /\ phase = "config"
  /\ c = NoCache
  /\ fwd = <<>>
  /\ last = NoAccess
  /\ ghost = NoGhost
  /\ ref = NoCache
  /\ script = 0
  /\ pair = NoPair
  /\ l2 = NoCache

\* construct() makes c; the twin is made by the generic constructor; both
\* are wired to a handler, or both are not
FaConstruct ==
  /\ phase = "config"
  /\ \E h \in BOOLEAN :
       LET made == construct(cfg.sets, cfg.ways, cfg.linesz)
           twin == cache_sim_t(cfg.sets, cfg.ways, cfg.linesz)
       IN /\ c' = [made EXCEPT !.miss_handler = h]
          /\ ref' = [c |-> [twin EXCEPT !.miss_handler = h], fwd |-> <<>>,
                     hit |-> FALSE, crash |-> FALSE]
          /\ ghost' = GhostInit(made)
  /\ phase' = "ready"
  /\ UNCHANGED <<cfg, fwd, last, script, pair, l2>>

\* the results of the twin that go with result o of c: where the call is
\* undefined behaviour for both, the two take the same way out
TwinOutcomes(o, twins) ==
  LET same == {r \in twins : r.crash = o.crash}
  IN IF same = {} THEN twins ELSE same

\* the same call on both caches
FaAccess ==
  /\ phase = "ready"
  /\ NAccesses(c) < FaMaxAccesses
  /\ \E line \in FaLines, off \in FaOffsets(c), bytes \in ByteCounts,
        store \in BOOLEAN :
       \E twins \in {access(ref.c, line * c.linesz + off, bytes, store)} :
         \E o \in access(c, line * c.linesz + off, bytes, store) :
           \E r \in TwinOutcomes(o, twins) :
             /\ ApplyOutcome(line * c.linesz + off, bytes, store, o)
             /\ ref' = [c |-> r.c, fwd |-> r.fwd, hit |-> r.hit,
                        crash |-> r.crash]
  /\ UNCHANGED <<cfg, script, pair, l2>>

FaNext == FaConstruct \/ FaAccess

SpecFA == FaInit /\ [][FaNext]_vars

\* the fields of a cache object other than the variant it dispatches to
SameState(a, b) == [a EXCEPT !.fa = FALSE] = [b EXCEPT !.fa = FALSE]

\* C7: a fully-associative cache and a generic cache with one set and the
\* same ways and line size, fed the same calls from construction, agree
\* after every call on hit or miss, on the calls forwarded to the handler,
\* and on the tag, LRU and counter state.
C7_FaBehavesAsGeneric ==
  (Built /\ ref # NoCache) =>
    /\ c.fa /\ ~ref.c.fa
    /\ SameState(c, ref.c)
    /\ fwd = ref.fwd
    /\ last # NoAccess => last.hit = ref.hit
    /\ (phase = "crashed") = ref.crash

\* both have evicted a written line and forwarded its writeback
C7_Witness ==
  /\ phase = "ready" /\ ref # NoCache /\ c.fa
  /\ c.writebacks >= 1 /\ Len(fwd) = 2 /\ Len(ref.fwd) = 2
  /\ \E p \in DOMAIN c.tags : ghost.wrote[p] = "hit"

----------------------------------------------------------------------------
(* A one-set, one-way cache with 64-byte lines whose driver goes back and
   forth between two addresses of two distinct lines *)

ThrashGeometry == [sets |-> 1, ways |-> 1, linesz |-> 64]

\* number of accesses the alternating driver makes
ThrashMaxAccesses == 5

ThrashLines == {0, 1, 2, 4}

ThrashAddresses ==
  {line * ThrashGeometry.linesz + off :
     line \in ThrashLines, off \in {0, ThrashGeometry.linesz - 1}}

ThrashPairs ==
  {p \in ThrashAddresses \X ThrashAddresses :
     p[1] \div ThrashGeometry.linesz # p[2] \div ThrashGeometry.linesz}

ThrashInit ==
  /\ cfg = ThrashGeometry
  /\ phase = "config"
  /\ c = NoCache
  /\ fwd = <<>>
  /\ last = NoAccess
  /\ ghost = NoGhost
  /\ ref = NoCache
  /\ script = 1
  /\ pair \in ThrashPairs
  /\ l2 = NoCache

\* access number script goes to the first address of the pair when script is
\* odd and to the second when it is even
ThrashStep ==
  /\ phase = "ready"
  /\ script <= ThrashMaxAccesses
  /\ script' = script + 1
  /\ \E bytes \in ByteCounts, store \in BOOLEAN :
       DoAccess(pair[2 - (script % 2)], bytes, store)
  /\ UNCHANGED <<cfg, ref, pair, l2>>

ThrashNext == Construct \/ SetMissHandler \/ ThrashStep

SpecThrash == ThrashInit /\ [][ThrashNext]_vars

\* C11: in a cache of 1 set, 1 way and 64-byte lines, whatever two addresses
\* of two distinct lines the driver alternates between, every access is a
\* miss: after k accesses the miss counters add up to k.
C11_ThrashAlwaysMisses ==
  (Built /\ pair # NoPair) => Misses(c) = NAccesses(c)

----------------------------------------------------------------------------
(* Further claims about single calls of access() *)

\* the fields of a cache object that a hit may change, set to those of b
SameButHitFields(a, b) ==
  [a EXCEPT !.tags = b.tags, !.lru = b.lru,
            !.read_accesses = b.read_accesses, !.bytes_read = b.bytes_read,
            !.write_accesses = b.write_accesses,
            !.bytes_written = b.bytes_written] = b

\* C12: an access that hits leaves every slot's tag value and VALID flag, the
\* two miss counters and writebacks as they were and forwards nothing; it
\* changes at most the LRU order of the addressed set, the access and byte
\* counters, and for a write the DIRTY flag of the slot it hit.
C12_HitFrame ==
  [][ ( AccessStep /\ last'.hit )
      => /\ phase' = "ready"
         /\ fwd' = <<>>
         /\ c'.read_misses = c.read_misses
         /\ c'.write_misses = c.write_misses
         /\ c'.writebacks = c.writebacks
         /\ SameButHitFields(c', c)
         /\ \A p \in DOMAIN c.tags :
              /\ BitClear(c'.tags[p], DIRTY) = BitClear(c.tags[p], DIRTY)
              /\ c'.tags[p] # c.tags[p] =>
                   /\ p = last'.slot /\ last'.store
                   /\ c'.tags[p] = BitOr(c.tags[p], DIRTY)
         /\ ~last'.store => c'.tags = c.tags
         /\ \A p \in DOMAIN c.lru :
              p \notin SetSlots(c, last'.slot \div c.ways) =>
                c'.lru[p] = c.lru[p] ]_vars

\* in a two-set cache whose set 0 holds a line, a write has hit the clean
\* line of set 1 and has set its DIRTY flag
C12_Witness ==
  /\ phase = "ready" /\ last # NoAccess /\ c.sets = 2 /\ c.ways = 2
  /\ last.hit /\ last.store /\ last.slot \in SetSlots(c, 1)
  /\ Misses(c) = 2 /\ NAccesses(c) = 3
  /\ ghost.wrote[last.slot] = "hit" /\ HasFlag(c.tags[last.slot], DIRTY)
  /\ \E p \in SetSlots(c, 0) : HasFlag(c.tags[p], VALID)

\* the reads among the calls forwarded to the handler
ReadsIn(calls) == SelectSeq(calls, LAMBDA x : ~x.store)

\* C13: after every miss of a cache that has a handler, read or write, with
\* or without a writeback, the handler has got exactly one read from that
\* access: linesz bytes at the start of the line of the missed address.
C13_OneFillPerMiss ==
  ( /\ Built /\ c.ways >= 1 /\ c.miss_handler
    /\ last # NoAccess /\ ~last.hit )
  => /\ ReadsIn(fwd) = <<Call(last.line * c.linesz, c.linesz, FALSE)>>
     /\ fwd[Len(fwd)] = Call(last.line * c.linesz, c.linesz, FALSE)
     /\ Len(fwd) <= 2

\* a write miss on line 4 has evicted a written line: the handler got the
\* writeback and then the fill read of 8 bytes at address 32
C13_Witness ==
  /\ phase = "ready" /\ c.miss_handler /\ c.linesz = 8 /\ c.ways = 1
  /\ last # NoAccess /\ ~last.hit /\ last.store /\ last.line = 4
  /\ Len(fwd) = 2 /\ fwd[1].store
  /\ fwd[2] = Call(32, 8, FALSE)

\* C14: after every write access the process is still running (the second
\* lookup of a write miss found the line) and a lookup of the written line
\* finds a slot that is VALID and DIRTY.
C14_WriteLeavesLineDirty ==
  ( Built /\ c.ways >= 1 /\ last # NoAccess /\ last.store )
  => /\ phase = "ready"
     /\ LET w == CheckTagOf(c, last.line * c.linesz).hit_way
        IN /\ w # NULL
           /\ HasFlag(c.tags[w], VALID)
           /\ HasFlag(c.tags[w], DIRTY)

----------------------------------------------------------------------------
(* A two-level chain: cache l2 is the miss handler of cache c from
   construction and gets no other calls *)

\* number of access calls explored on the first cache of a chain
ChainMaxAccesses == 4

ChainGeometries ==
  {[sets |-> 1, ways |-> 1, linesz |-> MinLinesz],
   [sets |-> 2, ways |-> 1, linesz |-> MinLinesz],
   [sets |-> 1, ways |-> 2, linesz |-> MinLinesz]}

ChainL2Geometries ==
  {[sets |-> 1, ways |-> 2, linesz |-> MinLinesz],
   [sets |-> 2, ways |-> 1, linesz |-> 2 * MinLinesz]}

ChainLines == {0, 1, 4}

ChainByteCounts == {1, 8}

ChainInit ==
  /\ cfg \in ChainGeometries
  /\ phase = "config"
  /\ c = NoCache
  /\ fwd = <<>>
  /\ last = NoAccess
  /\ ghost = NoGhost
  /\ ref = NoCache
  /\ script = 0
  /\ pair = NoPair
  /\ l2 = NoCache

\* both caches are made by construct(); the first gets the second as its
\* miss handler, the second has none
ChainConstruct ==
  /\ phase = "config"
  /\ \E g \in ChainL2Geometries :
       LET made == construct(cfg.sets, cfg.ways, cfg.linesz)
       IN /\ c' = [made EXCEPT !.miss_handler = TRUE]
          /\ l2' = construct(g.sets, g.ways, g.linesz)
          /\ ghost' = GhostInit(made)
  /\ phase' = "ready"
  /\ UNCHANGED <<cfg, fwd, last, ref, script, pair>>

\* a variant of Deliver that hands over the fill reads only
DeliverReadsOnly(cc, calls) ==
  LET reads == SelectSeq(calls, LAMBDA x : ~x.store)
  IN IF reads = <<>> THEN {[c |-> cc, crash |-> FALSE]}
     ELSE { [c |-> o.c, crash |-> o.crash] :
            o \in access(cc, reads[1].addr, reads[1].bytes, FALSE) }

\* miss_handler->access(...) for each of the calls in turn (lines 175 and
\* 179): the handler's state afterwards, and whether one of the calls ran
\* into the undefined behaviour that ends the process
RECURSIVE Deliver(_, _)
Deliver(cc, calls) ==
  IF calls = <<>> THEN {[c |-> cc, crash |-> FALSE]}
  ELSE UNION { IF o.crash THEN {[c |-> o.c, crash |-> TRUE]}
               ELSE Deliver(o.c, Tail(calls)) :
               o \in access(cc, Head(calls).addr, Head(calls).bytes,
                            Head(calls).store) }

\* one call c.access(addr, bytes, store) with the calls it makes to l2; when
\* the process ends inside a call to l2 the fields of c are those of no
\* completed call
ChainAccess ==
  /\ phase = "ready"
  /\ NAccesses(c) < ChainMaxAccesses
  /\ \E line \in ChainLines, off \in FaOffsets(c), bytes \in ChainByteCounts,
        store \in BOOLEAN :
       \E o \in access(c, line * c.linesz + off, bytes, store) :
         \E d \in Deliver(l2, o.fwd) :
           /\ ApplyOutcome(line * c.linesz + off, bytes, store,
                           [o EXCEPT !.crash = @ \/ d.crash])
           /\ l2' = d.c
  /\ UNCHANGED <<cfg, ref, script, pair>>

ChainNext == ChainConstruct \/ ChainAccess

SpecChain == ChainInit /\ [][ChainNext]_vars

\* 1 when the condition holds, else 0
Count(cond) == IF cond THEN 1 ELSE 0

\* C15: every call access(addr, bytes, store), hit or miss, adds one to the
\* access counter of its direction and bytes to the byte counter of its
\* direction and leaves those of the other direction alone; a miss adds one
\* to the miss counter of its direction, and no other miss counter changes.
C15_CountersPerAccess ==
  [][ ( phase = "ready" /\ l2 # NoCache )
      => /\ c'.read_accesses = c.read_accesses + Count(~last'.store)
         /\ c'.write_accesses = c.write_accesses + Count(last'.store)
         /\ c'.bytes_read =
              c.bytes_read + (IF last'.store THEN 0 ELSE last'.bytes)
         /\ c'.bytes_written =
              c.bytes_written + (IF last'.store THEN last'.bytes ELSE 0)
         /\ c'.read_misses =
              c.read_misses + Count(~last'.hit /\ ~last'.store)
         /\ c'.write_misses =
              c.write_misses + Count(~last'.hit /\ last'.store) ]_vars

\* two reads and two writes, of 1 and of 8 bytes each way, two of the four
\* calls hits
C15_Witness ==
  /\ phase = "ready" /\ l2 # NoCache
  /\ c.read_accesses = 2 /\ c.write_accesses = 2
  /\ c.bytes_read = 9 /\ c.bytes_written = 9
  /\ c.read_misses = 1 /\ c.write_misses = 1
  /\ last.hit /\ last.store /\ last.bytes = 8

\* C16: an access hits exactly when the line of its address is held by a
\* slot of its set (a miss filled the slot with it and no later miss has
\* refilled the slot), and the slot it hits is one that holds this line.
C16_NoAliasing ==
  [][ AccessStep
      => LET S == SetSlots(c, Idx(c, last'.line * c.linesz))
         IN /\ last'.hit <=> \E p \in S : ghost.held[p] = last'.line
            /\ last'.hit => ghost.held[last'.slot] = last'.line ]_vars

\* C17: in every state, in every set, no two slots with VALID set hold the
\* same word once DIRTY is ignored.
C17_NoDuplicateLine ==
  ( Built /\ c.ways >= 1 )
  => \A i \in 0 .. (c.sets - 1) : \A p, q \in SetSlots(c, i) :
       ( /\ HasFlag(c.tags[p], VALID) /\ HasFlag(c.tags[q], VALID)
         /\ BitClear(c.tags[p], DIRTY) = BitClear(c.tags[q], DIRTY) )
       => p = q

\* the slots of set i that have VALID set
ValidSlots(cc, i) == {p \in SetSlots(cc, i) : HasFlag(cc.tags[p], VALID)}

\* in the LRU order of every set no way without VALID comes before a way
\* with VALID
ValidWaysFirst(cc) ==
  \A i \in 0 .. (cc.sets - 1) : \A j, k \in 0 .. (cc.ways - 1) :
    ( j < k /\ HasFlag(cc.tags[i * cc.ways + cc.lru[i * cc.ways + k]], VALID) )
    => HasFlag(cc.tags[i * cc.ways + cc.lru[i * cc.ways + j]], VALID)

\* C18: in every state, in the LRU order of every set, the ways with VALID
\* set come before the ways without; a miss whose victim word has VALID set
\* happens only in a set all of whose ways have VALID set; and no access
\* lowers the number of VALID slots of a set.
C18_ValidWaysFirst ==
  /\ []( (Built /\ c.ways >= 1) => ValidWaysFirst(c) )
  /\ [][ AccessStep
         => /\ \A i \in 0 .. (c.sets - 1) :
                 Cardinality(ValidSlots(c', i)) >= Cardinality(ValidSlots(c, i))
            /\ ( ~last'.hit /\ HasFlag(last'.victim, VALID) )
               => ValidSlots(c, last'.slot \div c.ways)
                    = SetSlots(c, last'.slot \div c.ways) ]_vars

\* in a two-set, two-way cache a miss has evicted a line from set 0, which is
\* full, while set 1 holds one line: its filled way is first in its LRU
\* order and its empty way last
C18_Witness ==
  /\ phase = "ready" /\ c.sets = 2 /\ c.ways = 2
  /\ last # NoAccess /\ ~last.hit /\ HasFlag(last.victim, VALID)
  /\ last.slot \in SetSlots(c, 0)
  /\ ValidSlots(c, 0) = SetSlots(c, 0)
  /\ Cardinality(ValidSlots(c, 1)) = 1
  /\ HasFlag(c.tags[2 + c.lru[2]], VALID)
  /\ ~HasFlag(c.tags[2 + c.lru[3]], VALID)

\* the three inequalities between the counters of one cache
CountersOrdered(cc) ==
  /\ cc.writebacks <= Misses(cc)
  /\ cc.read_misses <= cc.read_accesses
  /\ cc.write_misses <= cc.write_accesses

\* C19: in a chain where l2 is the handler of c from construction and is
\* called by nothing else, after every completed access to c the reads l2
\* has got are the misses of c and the writes l2 has got are the writebacks
\* of c, each of linesz-of-c bytes; and in each of the two caches writebacks
\* are at most the misses and the misses of a direction at most its accesses.
C19_ChainCounters ==
  ( phase = "ready" /\ l2 # NoCache )
  => /\ l2.read_accesses = c.read_misses + c.write_misses
     /\ l2.write_accesses = c.writebacks
     /\ l2.bytes_read = c.linesz * (c.read_misses + c.write_misses)
     /\ l2.bytes_written = c.linesz * c.writebacks
     /\ CountersOrdered(c)
     /\ CountersOrdered(l2)

\* four accesses to c, one of them a hit, three misses and one writeback:
\* l2 has got three reads and one write of 8 bytes each, and has misses and
\* a hit of its own
C19_Witness ==
  /\ phase = "ready" /\ l2 # NoCache
  /\ NAccesses(c) = 4 /\ Misses(c) = 3 /\ c.writebacks = 1
  /\ l2.read_accesses = 3 /\ l2.write_accesses = 1
  /\ l2.bytes_read = 24 /\ l2.bytes_written = 8
  /\ Misses(l2) = 2

\* C20: an access to an address of set s, hit or miss, leaves the tag slots
\* and the LRU positions of every other set as they were.
C20_SetIsolation ==
  [][ AccessStep
      => \A i \in (0 .. (c.sets - 1)) \ {Idx(c, last'.line * c.linesz)} :
           \A p \in SetSlots(c, i) :
             c'.tags[p] = c.tags[p] /\ c'.lru[p] = c.lru[p] ]_vars

\* a miss has filled the first line into set 1 of a two-set, two-way cache
\* whose set 0 is full, holds a written line and has had its order changed
\* by a hit
C20_Witness ==
  /\ phase = "ready" /\ c.sets = 2 /\ c.ways = 2
  /\ last # NoAccess /\ ~last.hit /\ last.slot \in SetSlots(c, 1)
  /\ NAccesses(c) = 4 /\ Misses(c) = 3
  /\ ValidSlots(c, 0) = SetSlots(c, 0)
  /\ \E p \in SetSlots(c, 0) : ghost.wrote[p] = "fill"
  /\ c.lru[0] = 0 /\ c.lru[1] = 1
  /\ Cardinality(ValidSlots(c, 1)) = 1

====
